---------------------------- MODULE Spec2Model ----------------------------
(***************************************************************************)
(* A model of sxg_rs/src/headers.rs: the header table `Headers` and its    *)
(* operations new, forward_to_origin_server, validate_as_sxg_payload and   *)
(* get_signed_headers_bytes.                                               *)
(*                                                                         *)
(* A Rust String or byte vector is a sequence of ASCII codes / bytes       *)
(* (0..255), so that lowercasing, substring search, integer parsing,       *)
(* formatting and base64 are computed the way the code computes them.      *)
(* The HashMap<String, String> is a set of <<key, value>> pairs; the order *)
(* in which a HashMap is iterated is not fixed by the program and is a     *)
(* nondeterministic choice in every action that iterates one.              *)
(***************************************************************************)
EXTENDS Integers, Sequences, FiniteSets, TLC

VARIABLES
    pc,       \* "start": the input pairs exist; "ready": a Headers value exists;
              \* "consumed": forward_to_origin_server took ownership of it
    data,     \* the Entries handed to Headers::new
    headers,  \* Headers.0, the HashMap, as a set of <<key, value>> pairs
    args,     \* the arguments of the last operation called on `headers`
    entries,  \* get_signed_headers_bytes: the Vec handed to DataItem::Map
    result    \* what the last operation returned

vars == <<pc, data, headers, args, entries, result>>

(***************************************************************************)
(* Bounds of the model.                                                    *)
(***************************************************************************)
\* Longest Entries sequence given to Headers::new when its order and its
\* duplicates are what is examined (SpecNew).
MaxLen == 3
\* Most input pairs of a request or response in the other specifications.
MaxHeaders == 3
\* Most input pairs where every operation may follow every other (Spec).
MaxMixed == 2

(***************************************************************************)
(* String literals of the source, as ASCII codes.                          *)
(***************************************************************************)
\* "accept"
N_accept ==
    <<97, 99, 99, 101, 112, 116>>
\* "via"
N_via ==
    <<118, 105, 97>>
\* "user-agent"
N_user_agent ==
    <<117, 115, 101, 114, 45, 97, 103, 101, 110, 116>>
\* "cache-control"
N_cache_control ==
    <<99, 97, 99, 104, 101, 45, 99, 111, 110, 116, 114, 111, 108>>
\* "content-length"
N_content_length ==
    <<99, 111, 110, 116, 101, 110, 116, 45, 108, 101, 110, 103, 116, 104>>
\* "content-type"
N_content_type ==
    <<99, 111, 110, 116, 101, 110, 116, 45, 116, 121, 112, 101>>
\* ":status"
N_status ==
    <<58, 115, 116, 97, 116, 117, 115>>
\* "content-encoding"
N_content_encoding ==
    <<99, 111, 110, 116, 101, 110, 116, 45, 101, 110, 99, 111, 100, 105, 110, 103>>
\* "digest"
N_digest ==
    <<100, 105, 103, 101, 115, 116>>
\* "connection"
N_connection ==
    <<99, 111, 110, 110, 101, 99, 116, 105, 111, 110>>
\* "keep-alive"
N_keep_alive ==
    <<107, 101, 101, 112, 45, 97, 108, 105, 118, 101>>
\* "proxy-connection"
N_proxy_connection ==
    <<112, 114, 111, 120, 121, 45, 99, 111, 110, 110, 101, 99, 116, 105, 111, 110>>
\* "trailer"
N_trailer ==
    <<116, 114, 97, 105, 108, 101, 114>>
\* "transfer-encoding"
N_transfer_encoding ==
    <<116, 114, 97, 110, 115, 102, 101, 114, 45, 101, 110, 99, 111, 100, 105, 110, 103>>
\* "upgrade"
N_upgrade ==
    <<117, 112, 103, 114, 97, 100, 101>>
\* "variant-key-04"
N_variant_key_04 ==
    <<118, 97, 114, 105, 97, 110, 116, 45, 107, 101, 121, 45, 48, 52>>
\* "variants-04"
N_variants_04 ==
    <<118, 97, 114, 105, 97, 110, 116, 115, 45, 48, 52>>
\* "authentication-control"
N_authentication_control ==
    <<97, 117, 116, 104, 101, 110, 116, 105, 99, 97, 116, 105, 111, 110, 45, 99, 111, 110, 116,
      114, 111, 108>>
\* "authentication-info"
N_authentication_info ==
    <<97, 117, 116, 104, 101, 110, 116, 105, 99, 97, 116, 105, 111, 110, 45, 105, 110, 102, 111>>
\* "clear-site-data"
N_clear_site_data ==
    <<99, 108, 101, 97, 114, 45, 115, 105, 116, 101, 45, 100, 97, 116, 97>>
\* "optional-www-authenticate"
N_optional_www_authenticate ==
    <<111, 112, 116, 105, 111, 110, 97, 108, 45, 119, 119, 119, 45, 97, 117, 116, 104, 101, 110,
      116, 105, 99, 97, 116, 101>>
\* "proxy-authenticate"
N_proxy_authenticate ==
    <<112, 114, 111, 120, 121, 45, 97, 117, 116, 104, 101, 110, 116, 105, 99, 97, 116, 101>>
\* "proxy-authentication-info"
N_proxy_authentication_info ==
    <<112, 114, 111, 120, 121, 45, 97, 117, 116, 104, 101, 110, 116, 105, 99, 97, 116, 105, 111,
      110, 45, 105, 110, 102, 111>>
\* "public-key-pins"
N_public_key_pins ==
    <<112, 117, 98, 108, 105, 99, 45, 107, 101, 121, 45, 112, 105, 110, 115>>
\* "sec-websocket-accept"
N_sec_websocket_accept ==
    <<115, 101, 99, 45, 119, 101, 98, 115, 111, 99, 107, 101, 116, 45, 97, 99, 99, 101, 112, 116>>
\* "set-cookie"
N_set_cookie ==
    <<115, 101, 116, 45, 99, 111, 111, 107, 105, 101>>
\* "set-cookie2"
N_set_cookie2 ==
    <<115, 101, 116, 45, 99, 111, 111, 107, 105, 101, 50>>
\* "setprofile"
N_setprofile ==
    <<115, 101, 116, 112, 114, 111, 102, 105, 108, 101>>
\* "strict-transport-security"
N_strict_transport_security ==
    <<115, 116, 114, 105, 99, 116, 45, 116, 114, 97, 110, 115, 112, 111, 114, 116, 45, 115, 101,
      99, 117, 114, 105, 116, 121>>
\* "www-authenticate"
N_www_authenticate ==
    <<119, 119, 119, 45, 97, 117, 116, 104, 101, 110, 116, 105, 99, 97, 116, 101>>
\* "sxgrs"
S_sxgrs ==
    <<115, 120, 103, 114, 115>>
\* ", "
S_comma_space ==
    <<44, 32>>
\* "no-cache"
S_no_cache ==
    <<110, 111, 45, 99, 97, 99, 104, 101>>
\* "private"
S_private ==
    <<112, 114, 105, 118, 97, 116, 101>>
\* "mi-sha256-03"
S_mi_sha256_03 ==
    <<109, 105, 45, 115, 104, 97, 50, 53, 54, 45, 48, 51>>
\* "mi-sha256-03="
S_mi_sha256_03_eq ==
    <<109, 105, 45, 115, 104, 97, 50, 53, 54, 45, 48, 51, 61>>
\* "Mozilla/5.0 (Linux; Android 6.0.1; Nexus 5X Build/MMB29P) AppleWebKit/537.36 (KHTML, like Gecko) Chrome/41.0.2272.96 Mobile Safari/537.36"
USER_AGENT ==
    <<77, 111, 122, 105, 108, 108, 97, 47, 53, 46, 48, 32, 40, 76, 105, 110, 117, 120, 59, 32, 65,
      110, 100, 114, 111, 105, 100, 32, 54, 46, 48, 46, 49, 59, 32, 78, 101, 120, 117, 115, 32, 53,
      88, 32, 66, 117, 105, 108, 100, 47, 77, 77, 66, 50, 57, 80, 41, 32, 65, 112, 112, 108, 101,
      87, 101, 98, 75, 105, 116, 47, 53, 51, 55, 46, 51, 54, 32, 40, 75, 72, 84, 77, 76, 44, 32,
      108, 105, 107, 101, 32, 71, 101, 99, 107, 111, 41, 32, 67, 104, 114, 111, 109, 101, 47, 52,
      49, 46, 48, 46, 50, 50, 55, 50, 46, 57, 54, 32, 77, 111, 98, 105, 108, 101, 32, 83, 97, 102,
      97, 114, 105, 47, 53, 51, 55, 46, 51, 54>>
\* "ABCDEFGHIJKLMNOPQRSTUVWXYZabcdefghijklmnopqrstuvwxyz0123456789+/"
BASE64_ALPHABET ==
    <<65, 66, 67, 68, 69, 70, 71, 72, 73, 74, 75, 76, 77, 78, 79, 80, 81, 82, 83, 84, 85, 86, 87,
      88, 89, 90, 97, 98, 99, 100, 101, 102, 103, 104, 105, 106, 107, 108, 109, 110, 111, 112, 113,
      114, 115, 116, 117, 118, 119, 120, 121, 122, 48, 49, 50, 51, 52, 53, 54, 55, 56, 57, 43, 47>>
\* "application/signed-exchange"
S_signed_exchange ==
    <<97, 112, 112, 108, 105, 99, 97, 116, 105, 111, 110, 47, 115, 105, 103, 110, 101, 100, 45,
      101, 120, 99, 104, 97, 110, 103, 101>>

(***************************************************************************)
(* Strings used only as inputs and expected outputs.                       *)
(***************************************************************************)
\* "Accept"
I_Accept ==
    <<65, 99, 99, 101, 112, 116>>
\* "ACCEPT"
I_ACCEPT ==
    <<65, 67, 67, 69, 80, 84>>
\* "Via"
I_Via ==
    <<86, 105, 97>>
\* "x-foo"
I_x_foo ==
    <<120, 45, 102, 111, 111>>
\* "X-Foo"
I_X_Foo ==
    <<88, 45, 70, 111, 111>>
\* "Content-Type"
I_Content_Type ==
    <<67, 111, 110, 116, 101, 110, 116, 45, 84, 121, 112, 101>>
\* "Keep-Alive"
I_Keep_Alive ==
    <<75, 101, 101, 112, 45, 65, 108, 105, 118, 101>>
\* "application/signed-exchange;v=b3"
I_sxg_b3 ==
    <<97, 112, 112, 108, 105, 99, 97, 116, 105, 111, 110, 47, 115, 105, 103, 110, 101, 100, 45,
      101, 120, 99, 104, 97, 110, 103, 101, 59, 118, 61, 98, 51>>
\* "text/html"
I_text_html ==
    <<116, 101, 120, 116, 47, 104, 116, 109, 108>>
\* "1.1 foo"
I_1_1_foo ==
    <<49, 46, 49, 32, 102, 111, 111>>
\* "1.0 bar"
I_1_0_bar ==
    <<49, 46, 48, 32, 98, 97, 114>>
\* "curl/7.0"
I_curl ==
    <<99, 117, 114, 108, 47, 55, 46, 48>>
\* "bar"
I_bar ==
    <<98, 97, 114>>
\* "baz"
I_baz ==
    <<98, 97, 122>>
\* "a=b"
I_a_eq_b ==
    <<97, 61, 98>>
\* "Basic"
I_basic ==
    <<66, 97, 115, 105, 99>>
\* "close"
I_close ==
    <<99, 108, 111, 115, 101>>
\* "max-age=60"
I_max_age ==
    <<109, 97, 120, 45, 97, 103, 101, 61, 54, 48>>
\* "x-private-y"
I_x_private_y ==
    <<120, 45, 112, 114, 105, 118, 97, 116, 101, 45, 121>>
\* "no-cache=foo"
I_no_cache_foo ==
    <<110, 111, 45, 99, 97, 99, 104, 101, 61, 102, 111, 111>>
\* "No-Cache"
I_No_Cache ==
    <<78, 111, 45, 67, 97, 99, 104, 101>>
\* "abc"
I_abc ==
    <<97, 98, 99>>
\* "-1"
I_minus_1 ==
    <<45, 49>>
\* "0"
I_0 ==
    <<48>>
\* "+5"
I_plus_5 ==
    <<43, 53>>
\* "8000000"
I_8000000 ==
    <<56, 48, 48, 48, 48, 48, 48>>
\* "8000001"
I_8000001 ==
    <<56, 48, 48, 48, 48, 48, 49>>
\* "08000000"
I_08000000 ==
    <<48, 56, 48, 48, 48, 48, 48, 48>>
\* "18446744073709551615"
I_u64_max ==
    <<49, 56, 52, 52, 54, 55, 52, 52, 48, 55, 51, 55, 48, 57, 53, 53, 49, 54, 49, 53>>
\* "18446744073709551616"
I_u64_max_plus_1 ==
    <<49, 56, 52, 52, 54, 55, 52, 52, 48, 55, 51, 55, 48, 57, 53, 53, 49, 54, 49, 54>>
\* "gzip"
I_gzip ==
    <<103, 122, 105, 112>>
\* "sha-256=abc"
I_sha ==
    <<115, 104, 97, 45, 50, 53, 54, 61, 97, 98, 99>>
\* "500"
I_500 ==
    <<53, 48, 48>>
\* "f"
I_f ==
    <<102>>
\* "fo"
I_fo ==
    <<102, 111>>
\* "foo"
I_foo ==
    <<102, 111, 111>>
\* "Zg=="
I_Zg ==
    <<90, 103, 61, 61>>
\* "Zm8="
I_Zm8 ==
    <<90, 109, 56, 61>>
\* "Zm9v"
I_Zm9v ==
    <<90, 109, 57, 118>>
\* "200"
I_200 ==
    <<50, 48, 48>>
\* "65535"
I_65535 ==
    <<54, 53, 53, 51, 53>>

(***************************************************************************)
(* String and collection helpers (std).                                    *)
(***************************************************************************)
\* str::contains(pattern): substring search.
Contains(s, sub) ==
    \E i \in 0..(Len(s) - Len(sub)) :
        \A j \in 1..Len(sub) : s[i + j] = sub[j]

\* Lexicographic order on byte sequences (Ord for [u8], Vec<u8>, str).
BytesLess(a, b) ==
    \E i \in 1..(Len(b)) :
        /\ i <= Len(a) + 1
        /\ \A j \in 1..(i - 1) : a[j] = b[j]
        /\ (i = Len(a) + 1 \/ a[i] < b[i])

\* Every order in which the elements of a finite set can be visited: the
\* iteration orders of a HashMap or HashSet holding them.
RECURSIVE Orders(_)
Orders(S) ==
    IF S = {} THEN {<<>>}
    ELSE UNION {{<<x>> \o t : t \in Orders(S \ {x})} : x \in S}

\* HashMap::contains_key
ContainsKey(m, k) == \E e \in m : e[1] = k

\* HashMap::get, where the key is present
Get(m, k) == (CHOOSE e \in m : e[1] = k)[2]

\* HashMap::keys
Keys(m) == {e[1] : e \in m}

\* A faulty insert, for comparison: an existing key keeps its first value.
HashMapInsertKeepFirst(m, k, v) ==
    IF ContainsKey(m, k) THEN m ELSE m \cup {<<k, v>>}

\* HashMap::insert: the value of an existing key is replaced.
HashMapInsert(m, k, v) ==
    {e \in m : e[1] # k} \cup {<<k, v>>}

(***************************************************************************)
(* Headers::new                                                            *)
(***************************************************************************)
\* str::make_ascii_lowercase: 'A'..'Z' (65..90) become 'a'..'z'.
make_ascii_lowercase(k) ==
    [i \in 1..Len(k) |-> IF k[i] \in 65..90 THEN k[i] + 32 ELSE k[i]]

\* The loop of Headers::new over data[i..].
RECURSIVE new_loop(_, _, _)
new_loop(m, d, i) ==
    IF i > Len(d) THEN m
    ELSE new_loop(HashMapInsert(m, make_ascii_lowercase(d[i][1]), d[i][2]), d, i + 1)

new(d) == new_loop({}, d, 1)

(***************************************************************************)
(* Results.  The code returns Result<_, String>; an error is kept as the   *)
(* kind of message (which format string produced it) and the text that was *)
(* interpolated into it.                                                   *)
(***************************************************************************)
NoResult == [op |-> "none", ok |-> TRUE, kind |-> "", arg |-> <<>>, out |-> <<>>]

Ok(op, out) == [op |-> op, ok |-> TRUE, kind |-> "", arg |-> <<>>, out |-> out]

Err(op, kind, arg) == [op |-> op, ok |-> FALSE, kind |-> kind, arg |-> arg, out |-> <<>>]

NoArgs ==
    [forwarded_header_names |-> {}, reject_stateful_headers |-> FALSE,
     status_code |-> 0, mice_digest |-> <<>>]

(***************************************************************************)
(* Headers::forward_to_origin_server                                       *)
(***************************************************************************)
\* crate::media_type::validate_sxg_request_header: the external media-type
\* validator.  It accepts an `accept` value that offers signed exchanges and
\* otherwise returns its own error.
validate_sxg_request_header(accept) ==
    IF Contains(accept, S_signed_exchange)
    THEN [ok |-> TRUE, kind |-> "", arg |-> <<>>]
    ELSE [ok |-> FALSE, kind |-> "InvalidMediaType", arg |-> accept]

\* format!("{}, {}", a, b)
format_comma(a, b) == a \o S_comma_space \o b

\* let mut via = ...: the Via value computed before filtering.
forward_via(self) ==
    IF ContainsKey(self, N_via)
    THEN format_comma(Get(self, N_via), S_sxgrs)
    ELSE S_sxgrs

\* self.0.into_iter().filter_map(..).collect()
forward_filter(self, forwarded_header_names, via) ==
    {<<e[1], e[2]>> : e \in {x \in self : x[1] \in forwarded_header_names}}
    \cup
    {<<e[1], format_comma(e[2], via)>> :
        e \in {x \in self : x[1] \notin forwarded_header_names /\ x[1] = N_via}}

\* Faulty defaults, for comparison: inserted whether or not the key exists.
forward_defaults_overwrite(new_headers, via) ==
    HashMapInsert(HashMapInsert(new_headers, N_user_agent, USER_AGENT), N_via, via)

\* for (k, v) in default_values { if !contains_key(k) { insert(k, v) } }
forward_defaults(new_headers, via) ==
    LET with_ua == IF ContainsKey(new_headers, N_user_agent) THEN new_headers
                   ELSE HashMapInsert(new_headers, N_user_agent, USER_AGENT)
    IN  IF ContainsKey(with_ua, N_via) THEN with_ua
        ELSE HashMapInsert(with_ua, N_via, via)

\* A faulty forward_to_origin_server, for comparison: `accept` is neither
\* required nor validated.
forward_to_origin_server_unchecked(self, forwarded_header_names) ==
    LET via == forward_via(self)
        new_headers == forward_defaults(forward_filter(self, forwarded_header_names, via), via)
    IN  {Ok("forward", o) : o \in Orders(new_headers)}

\* The results forward_to_origin_server can return: one error, or the new
\* headers as a Vec in any of the orders new_headers.into_iter() can take.
forward_to_origin_server(self, forwarded_header_names) ==
    IF ~ContainsKey(self, N_accept)
    THEN {Err("forward", "MissingHeader", N_accept)}
    ELSE LET checked == validate_sxg_request_header(Get(self, N_accept))
         IN  IF ~checked.ok
             THEN {Err("forward", checked.kind, checked.arg)}
             ELSE LET via == forward_via(self)
                      new_headers ==
                          forward_defaults(
                              forward_filter(self, forwarded_header_names, via), via)
                  IN  {Ok("forward", o) : o \in Orders(new_headers)}

(***************************************************************************)
(* The static header-name sets                                             *)
(***************************************************************************)
\* A faulty UNCACHED_HEADERS, for comparison: the names reserved for SXG
\* (:status, content-encoding, digest) are left out.
UNCACHED_HEADERS_hop_by_hop_only ==
    {N_connection, N_keep_alive, N_proxy_connection, N_trailer,
     N_transfer_encoding, N_upgrade, N_variant_key_04, N_variants_04}

UNCACHED_HEADERS ==
    {N_connection, N_keep_alive, N_proxy_connection, N_trailer,
     N_transfer_encoding, N_upgrade,
     N_status, N_content_encoding, N_digest,
     N_variant_key_04, N_variants_04}

STATEFUL_HEADERS ==
    {N_authentication_control, N_authentication_info, N_clear_site_data,
     N_optional_www_authenticate, N_proxy_authenticate,
     N_proxy_authentication_info, N_public_key_pins, N_sec_websocket_accept,
     N_set_cookie, N_set_cookie2, N_setprofile, N_strict_transport_security,
     N_www_authenticate}

(***************************************************************************)
(* Headers::validate_as_sxg_payload                                        *)
(***************************************************************************)
\* A u64 is kept as its decimal digits (0..9), most significant first and
\* without leading zeros: 2^64 exceeds the integers TLC computes with.
U64_MAX == <<1, 8, 4, 4, 6, 7, 4, 4, 0, 7, 3, 7, 0, 9, 5, 5, 1, 6, 1, 5>>

\* const MAX_SIZE: u64 = 8_000_000
MAX_SIZE == <<8, 0, 0, 0, 0, 0, 0>>

\* a > b on u64 values
U64Greater(a, b) ==
    \/ Len(a) > Len(b)
    \/ Len(a) = Len(b) /\ BytesLess(b, a)

\* u64::to_string / "{}"
U64ToString(n) == [i \in 1..Len(n) |-> n[i] + 48]

\* result.checked_mul(10)?.checked_add(d)?: <<>> stands for the overflow.
U64MulAdd(acc, d) ==
    LET r == IF acc = <<0>> THEN <<d>> ELSE Append(acc, d)
    IN  IF U64Greater(r, U64_MAX) THEN <<>> ELSE r

RECURSIVE parse_digits(_, _, _)
parse_digits(s, i, acc) ==
    IF i > Len(s) THEN [ok |-> TRUE, val |-> acc]
    ELSE IF s[i] \notin 48..57 THEN [ok |-> FALSE, val |-> <<>>]
    ELSE LET r == U64MulAdd(acc, s[i] - 48)
         IN  IF r = <<>> THEN [ok |-> FALSE, val |-> <<>>]
             ELSE parse_digits(s, i + 1, r)

\* A faulty parse, for comparison: any run of digits is accepted, however
\* large.
parse_u64_no_overflow_check(s) ==
    LET digits == IF s # <<>> /\ s[1] = 43 THEN Tail(s) ELSE s
    IN  IF digits = <<>> \/ \E i \in 1..Len(digits) : digits[i] \notin 48..57
        THEN [ok |-> FALSE, val |-> <<>>]
        ELSE [ok |-> TRUE, val |-> [i \in 1..Len(digits) |-> digits[i] - 48]]

\* str::parse::<u64>: an optional '+' (43), then one or more digits whose
\* value fits 64 bits.
parse_u64(s) ==
    LET digits == IF s # <<>> /\ s[1] = 43 THEN Tail(s) ELSE s
    IN  IF digits = <<>> THEN [ok |-> FALSE, val |-> <<>>]
        ELSE parse_digits(digits, 1, <<0>>)

\* The loop over self.0.iter(), visiting the entries in `order` from the
\* i-th on: the first error met, or NoResult when the loop ends.
RECURSIVE validate_loop(_, _, _)
validate_loop(order, i, reject_stateful_headers) ==
    IF i > Len(order) THEN NoResult
    ELSE LET k == order[i][1]
             v == order[i][2]
         IN  IF reject_stateful_headers /\ k \in STATEFUL_HEADERS
             THEN Err("validate", "StatefulHeaderRejected", k)
             ELSE IF k = N_cache_control /\ (Contains(v, S_no_cache) \/ Contains(v, S_private))
             THEN Err("validate", "InvalidCacheControl", v)
             ELSE validate_loop(order, i + 1, reject_stateful_headers)

\* A faulty content-length check, for comparison: MAX_SIZE is not enforced.
validate_content_length_unbounded(self) ==
    IF ContainsKey(self, N_content_length) /\ ~parse_u64(Get(self, N_content_length)).ok
    THEN Err("validate", "InvalidContentLength", Get(self, N_content_length))
    ELSE NoResult

\* if let Some(size) = self.0.get("content-length") { ... }
validate_content_length(self) ==
    IF ~ContainsKey(self, N_content_length) THEN NoResult
    ELSE LET size == parse_u64(Get(self, N_content_length))
         IN  IF size.ok
             THEN IF U64Greater(size.val, MAX_SIZE)
                  THEN Err("validate", "ContentTooLarge", U64ToString(size.val))
                  ELSE NoResult
             ELSE Err("validate", "InvalidContentLength", Get(self, N_content_length))

\* A faulty content-type check, for comparison: the header is not required.
validate_content_type_optional(self) == NoResult

\* if self.0.contains_key("content-type") == false { ... }
validate_content_type(self) ==
    IF ~ContainsKey(self, N_content_type)
    THEN Err("validate", "MissingContentType", <<>>)
    ELSE NoResult

\* A faulty validate_as_sxg_payload, for comparison: stateful headers are
\* never rejected.
validate_ignore_stateful(self, reject_stateful_headers, order) ==
    LET looped == validate_loop(order, 1, FALSE)
    IN  IF ~looped.ok THEN looped
        ELSE IF ~validate_content_length(self).ok THEN validate_content_length(self)
        ELSE IF ~validate_content_type(self).ok THEN validate_content_type(self)
        ELSE Ok("validate", <<>>)

\* validate_as_sxg_payload on `self`, whose iter() yields `order`.
validate_as_sxg_payload(self, reject_stateful_headers, order) ==
    LET looped == validate_loop(order, 1, reject_stateful_headers)
    IN  IF ~looped.ok THEN looped
        ELSE IF ~validate_content_length(self).ok THEN validate_content_length(self)
        ELSE IF ~validate_content_type(self).ok THEN validate_content_type(self)
        ELSE Ok("validate", <<>>)

(***************************************************************************)
(* Headers::get_signed_headers_bytes                                       *)
(***************************************************************************)
\* u16::to_string
RECURSIVE to_string(_)
to_string(n) ==
    IF n < 10 THEN <<48 + n>>
    ELSE to_string(n \div 10) \o <<48 + (n % 10)>>

\* The character of a 6-bit value in the standard base64 alphabet.
Base64Char(i) == BASE64_ALPHABET[i + 1]

\* ::base64::encode: standard alphabet, '=' (61) padding.
RECURSIVE base64_encode(_)
base64_encode(b) ==
    IF Len(b) = 0 THEN <<>>
    ELSE IF Len(b) = 1
    THEN <<Base64Char(b[1] \div 4), Base64Char((b[1] % 4) * 16), 61, 61>>
    ELSE IF Len(b) = 2
    THEN <<Base64Char(b[1] \div 4),
           Base64Char((b[1] % 4) * 16 + b[2] \div 16),
           Base64Char((b[2] % 16) * 4), 61>>
    ELSE <<Base64Char(b[1] \div 4),
           Base64Char((b[1] % 4) * 16 + b[2] \div 16),
           Base64Char((b[2] % 16) * 4 + b[3] \div 64),
           Base64Char(b[3] % 64)>>
         \o base64_encode(SubSeq(b, 4, Len(b)))

\* The loop over self.0.iter(), visiting the entries in `order` from the
\* i-th on, pushing those that are neither uncached nor stateful.
RECURSIVE signed_loop(_, _)
signed_loop(order, i) ==
    IF i > Len(order) THEN <<>>
    ELSE IF order[i][1] \in UNCACHED_HEADERS \/ order[i][1] \in STATEFUL_HEADERS
    THEN signed_loop(order, i + 1)
    ELSE <<order[i]>> \o signed_loop(order, i + 1)

\* `entries` once the three synthetic entries are pushed.
signed_entries(order, status_code, mice_digest) ==
    signed_loop(order, 1)
    \o <<<<N_status, to_string(status_code)>>,
         <<N_content_encoding, S_mi_sha256_03>>,
         <<N_digest, S_mi_sha256_03_eq \o base64_encode(mice_digest)>>>>

\* The CBOR head of an item: major type and length.
cbor_type_and_length(major, n) ==
    IF n < 24 THEN <<major * 32 + n>>
    ELSE IF n < 256 THEN <<major * 32 + 24, n>>
    ELSE <<major * 32 + 25, n \div 256, n % 256>>

\* DataItem::ByteString(b).serialize()
cbor_byte_string(b) == cbor_type_and_length(2, Len(b)) \o b

\* Canonical order of two serialized map fields.
CborFieldLess(a, b) ==
    \/ BytesLess(a[1], b[1])
    \/ a[1] = b[1] /\ BytesLess(a[2], b[2])

RECURSIVE cbor_concat(_, _)
cbor_concat(fields, i) ==
    IF i > Len(fields) THEN <<>>
    ELSE fields[i][1] \o fields[i][2] \o cbor_concat(fields, i + 1)

\* A non-canonical encoder, for comparison: the fields are written in the
\* order given.
cbor_map_unsorted(fields) ==
    cbor_type_and_length(5, Len(fields))
    \o cbor_concat([i \in 1..Len(fields) |->
           <<cbor_byte_string(fields[i][1]), cbor_byte_string(fields[i][2])>>], 1)

\* DataItem::Map(fields).serialize(), fields being pairs of byte strings:
\* the serialized fields in canonical (sorted) order after the map's head.
cbor_map(fields) ==
    cbor_type_and_length(5, Len(fields))
    \o cbor_concat(
           SortSeq([i \in 1..Len(fields) |->
                       <<cbor_byte_string(fields[i][1]), cbor_byte_string(fields[i][2])>>],
                   CborFieldLess), 1)

\* get_signed_headers_bytes on a table whose iter() yields `order`.
get_signed_headers_bytes(order, status_code, mice_digest) ==
    cbor_map(signed_entries(order, status_code, mice_digest))

(***************************************************************************)
(* Inputs                                                                  *)
(***************************************************************************)
\* The sequences of at most n elements of the tuple U, taken in U's order.
Selections(U, n) ==
    {[i \in 1..Len(s) |-> U[s[i]]] :
        s \in {t \in UNION {[1..k -> 1..Len(U)] : k \in 0..n} :
                  \A i \in 1..(Len(t) - 1) : t[i] < t[i + 1]}}

\* Every sequence of at most n elements of the set S.
SeqsUpTo(S, n) == UNION {[1..k -> S] : k \in 0..n}

\* Pairs for Headers::new: names that differ only by case, two values.
NewPairs ==
    {<<n, v>> : n \in {N_accept, I_Accept, I_ACCEPT, N_via, I_x_foo, I_X_Foo},
                v \in {I_bar, I_baz}}

RequestPairs ==
    <<
      <<I_Accept, I_sxg_b3>>,
      <<N_accept, I_text_html>>,
      <<N_accept, I_sxg_b3>>,
      <<N_via, I_1_1_foo>>,
      <<I_Via, I_1_0_bar>>,
      <<N_user_agent, I_curl>>,
      <<I_x_foo, I_bar>>,
      <<N_content_type, I_text_html>>
    >>

ForwardedSets ==
    {{}, {N_via}, {N_user_agent}, {N_accept, I_x_foo}, {I_X_Foo, I_Via},
     {N_user_agent, N_via}}

ResponsePairs ==
    <<
      <<N_content_type, I_text_html>>,
      <<I_Content_Type, I_text_html>>,
      <<N_set_cookie, I_a_eq_b>>,
      <<N_www_authenticate, I_basic>>,
      <<N_cache_control, I_max_age>>,
      <<N_cache_control, S_no_cache>>,
      <<N_cache_control, S_private>>,
      <<N_cache_control, I_x_private_y>>,
      <<N_cache_control, I_no_cache_foo>>,
      <<N_cache_control, I_No_Cache>>,
      <<N_content_length, I_abc>>,
      <<N_content_length, <<>>>>,
      <<N_content_length, I_minus_1>>,
      <<N_content_length, I_0>>,
      <<N_content_length, I_plus_5>>,
      <<N_content_length, I_8000000>>,
      <<N_content_length, I_08000000>>,
      <<N_content_length, I_8000001>>,
      <<N_content_length, I_u64_max>>,
      <<N_content_length, I_u64_max_plus_1>>,
      <<I_x_foo, I_bar>>
    >>

SignedPairs ==
    <<
      <<N_content_type, I_text_html>>,
      <<N_connection, I_close>>,
      <<I_Keep_Alive, I_max_age>>,
      <<N_set_cookie, I_a_eq_b>>,
      <<N_content_encoding, I_gzip>>,
      <<N_digest, I_sha>>,
      <<N_status, I_500>>,
      <<N_variants_04, I_bar>>,
      <<N_cache_control, S_no_cache>>,
      <<I_x_foo, I_bar>>
    >>

StatusCodes == {0, 200, 65535}

MiceDigests == {<<>>, I_f, I_fo, I_foo, <<255, 0, 128, 7, 251>>}

(***************************************************************************)
(* The state machine                                                       *)
(***************************************************************************)
InitWith(D) ==
    /\ pc = "start"
    /\ data \in D
    /\ headers = {}
    /\ args = NoArgs
    /\ entries = <<>>
    /\ result = NoResult

\* Headers::new(data)
New ==
    /\ pc = "start"
    /\ pc' = "ready"
    /\ headers' = new(data)
    /\ result' = Ok("new", <<>>)
    /\ UNCHANGED <<data, args, entries>>

\* self.forward_to_origin_server(&forwarded_header_names).  The call takes
\* ownership of the table: pc becomes "consumed" and `headers` keeps, for
\* reference only, the table that was passed.
ForwardToOriginServer ==
    /\ pc = "ready"
    /\ \E forwarded_header_names \in ForwardedSets :
         /\ args' = [NoArgs EXCEPT !.forwarded_header_names = forwarded_header_names]
         /\ result' \in forward_to_origin_server(headers, forwarded_header_names)
    /\ pc' = "consumed"
    /\ UNCHANGED <<data, headers, entries>>

\* self.validate_as_sxg_payload(reject_stateful_headers)
ValidateAsSxgPayload ==
    /\ pc = "ready"
    /\ \E reject_stateful_headers \in BOOLEAN, order \in Orders(headers) :
         /\ args' = [NoArgs EXCEPT !.reject_stateful_headers = reject_stateful_headers]
         /\ result' = validate_as_sxg_payload(headers, reject_stateful_headers, order)
    /\ UNCHANGED <<pc, data, headers, entries>>

\* self.get_signed_headers_bytes(status_code, &mice_digest)
GetSignedHeadersBytes ==
    /\ pc = "ready"
    /\ \E status_code \in StatusCodes, mice_digest \in MiceDigests,
          order \in Orders(headers) :
         /\ args' = [NoArgs EXCEPT !.status_code = status_code,
                                   !.mice_digest = mice_digest]
         /\ entries' = signed_entries(order, status_code, mice_digest)
         /\ result' = Ok("sign", get_signed_headers_bytes(order, status_code, mice_digest))
    /\ UNCHANGED <<pc, data, headers>>

Init ==
    InitWith(SeqsUpTo(NewPairs, MaxMixed) \cup Selections(RequestPairs, MaxMixed)
             \cup Selections(ResponsePairs, MaxMixed)
             \cup Selections(SignedPairs, MaxMixed))

Next ==
    \/ New
    \/ ForwardToOriginServer
    \/ ValidateAsSxgPayload
    \/ GetSignedHeadersBytes

Spec == Init /\ [][Next]_vars

\* Construction alone, from every sequence of pairs, duplicates included.
InitNew == InitWith(SeqsUpTo(NewPairs, MaxLen))

NextNew == New

SpecNew == InitNew /\ [][NextNew]_vars

\* A request: construction, then forwarding.
InitForward == InitWith(Selections(RequestPairs, MaxHeaders))

NextForward ==
    \/ New
    \/ ForwardToOriginServer

SpecForward == InitForward /\ [][NextForward]_vars

\* A response: construction, then validation.
InitValidate == InitWith(Selections(ResponsePairs, MaxHeaders))

NextValidate ==
    \/ New
    \/ ValidateAsSxgPayload

SpecValidate == InitValidate /\ [][NextValidate]_vars

\* A response: construction, then serialization of the signed headers.
InitSigned == InitWith(Selections(SignedPairs, MaxHeaders))

NextSigned ==
    \/ New
    \/ GetSignedHeadersBytes

SpecSigned == InitSigned /\ [][NextSigned]_vars

(***************************************************************************)
(* Properties.  The helpers below restate what the specification says in  *)
(* its own terms, without the operations of the model.                     *)
(***************************************************************************)
\* "/wCAB/s=": base64 of the bytes 255, 0, 128, 7, 251
I_b64_bin ==
    <<47, 119, 67, 65, 66, 47, 115, 61>>

\* k is the ASCII-lowercase form of name
IsLowerOf(k, name) ==
    /\ Len(k) = Len(name)
    /\ \A i \in 1..Len(name) :
         k[i] = IF name[i] >= 65 /\ name[i] <= 90 THEN name[i] + 32 ELSE name[i]

\* The input pairs whose name is k in some letter case
IndicesOf(d, k) == {i \in 1..Len(d) : IsLowerOf(k, d[i][1])}

\* The value of the last input pair whose name is k in some letter case
LastValue(d, k) ==
    d[CHOOSE i \in IndicesOf(d, k) : \A j \in IndicesOf(d, k) : j <= i][2]

\* The names of a sequence of pairs
NamesOf(s) == {s[i][1] : i \in 1..Len(s)}

\* The pairs of a sequence of pairs
PairsOf(s) == {s[i] : i \in 1..Len(s)}

\* No name occurs twice in a sequence of pairs
NamesOnce(s) == \A i, j \in 1..Len(s) : s[i][1] = s[j][1] => i = j

\* C10: after Headers::new(data), every key is the ASCII-lowercase form of an
\* input name, no key occurs twice, the value of a key is the value of the
\* last input pair with that name (in any letter case), every input name is
\* present as a key; and construction is possible from every input.
C10_ConstructionLastWriteWins ==
    /\ pc = "start" => ENABLED New
    /\ pc = "ready" =>
         /\ \A e \in headers : IndicesOf(data, e[1]) # {}
         /\ \A e1, e2 \in headers : e1[1] = e2[1] => e1 = e2
         /\ \A e \in headers : e[2] = LastValue(data, e[1])
         /\ \A i \in 1..Len(data) : \E e \in headers : IsLowerOf(e[1], data[i][1])

\* Three pairs whose names differ only by case: one key, the last value.
C10_Witness ==
    /\ pc = "ready"
    /\ data = <<<<I_Accept, I_bar>>, <<N_accept, I_baz>>, <<I_ACCEPT, I_bar>>>>
    /\ headers = {<<N_accept, I_bar>>}

\* C8: forward_to_origin_server fails with MissingHeader when no input name
\* is `accept` in any letter case; when the validator rejects the stored
\* `accept` value it fails with exactly the validator's error; no headers
\* are returned in either case; and with `accept` present the validator's
\* verdict alone decides between error and success.
C8_AcceptIsRequiredAndValidated ==
    result.op = "forward" =>
        IF IndicesOf(data, N_accept) = {}
        THEN ~result.ok /\ result.kind = "MissingHeader" /\ result.out = <<>>
        ELSE LET verdict == validate_sxg_request_header(LastValue(data, N_accept))
             IN  IF verdict.ok THEN result.ok
                 ELSE /\ ~result.ok
                      /\ result.kind = verdict.kind
                      /\ result.arg = verdict.arg
                      /\ result.out = <<>>

\* `Accept: ...signed-exchange` then `accept: text/html`: the stored value is
\* the later one, and the validator's error comes back.
C8_Witness ==
    /\ result.op = "forward"
    /\ data = <<<<I_Accept, I_sxg_b3>>, <<N_accept, I_text_html>>, <<N_via, I_1_1_foo>>>>
    /\ args.forwarded_header_names = {N_via}
    /\ result = Err("forward", "InvalidMediaType", I_text_html)

\* C9: when forward_to_origin_server succeeds, the output names are the input
\* names in the allow-list together with user-agent and via, each once; an
\* allow-listed input header keeps its value; any other input header except
\* via is dropped; user-agent has the default value exactly when no
\* allow-listed user-agent came in; with nothing allow-listed and no
\* user-agent or via in the input the output is {user-agent: default,
\* via: "sxgrs"}.
C9_ForwardedNamesAndDefaults ==
    (result.op = "forward" /\ result.ok) =>
        LET out == result.out
            allow == args.forwarded_header_names
            kept == {e \in headers : e[1] \in allow}
        IN  /\ NamesOf(out) = Keys(kept) \cup {N_user_agent, N_via}
            /\ NamesOnce(out)
            /\ kept \subseteq PairsOf(out)
            /\ \A e \in headers \ kept :
                 e[1] # N_via =>
                    PairsOf(out) \cap {p \in PairsOf(out) : p[1] = e[1]}
                        \subseteq {<<N_user_agent, USER_AGENT>>}
            /\ (<<N_user_agent, USER_AGENT>> \in PairsOf(out))
                 <=> ~ContainsKey(kept, N_user_agent)
            /\ (kept = {} /\ ~ContainsKey(headers, N_user_agent)
                          /\ ~ContainsKey(headers, N_via)) =>
                 PairsOf(out) = {<<N_user_agent, USER_AGENT>>, <<N_via, S_sxgrs>>}

\* accept and x-foo are allow-listed and kept, the input user-agent is not
\* and is replaced by the default.
C9_Witness ==
    /\ result.op = "forward" /\ result.ok
    /\ args.forwarded_header_names = {N_accept, I_x_foo}
    /\ headers = {<<N_accept, I_sxg_b3>>, <<N_user_agent, I_curl>>, <<I_x_foo, I_bar>>}
    /\ PairsOf(result.out) =
          {<<N_accept, I_sxg_b3>>, <<I_x_foo, I_bar>>,
           <<N_user_agent, USER_AGENT>>, <<N_via, S_sxgrs>>}

\* C1: when forward_to_origin_server succeeds, the output has exactly one via
\* entry; its value is "<upstream-via>, sxgrs" when the input has a via
\* header and "sxgrs" when it has none, whether or not via is allow-listed.
C1_ViaIsUpstreamThenSxgrs ==
    (result.op = "forward" /\ result.ok) =>
        LET vias == {i \in 1..Len(result.out) : result.out[i][1] = N_via}
        IN  /\ Cardinality(vias) = 1
            /\ \A i \in vias :
                 result.out[i][2] =
                    IF IndicesOf(data, N_via) = {} THEN S_sxgrs
                    ELSE LastValue(data, N_via) \o S_comma_space \o S_sxgrs

\* The value, after an optional '+', is one or more decimal digits: it
\* denotes a non-negative integer.
IsDecimalNat(v) ==
    LET digits == IF v # <<>> /\ v[1] = 43 THEN Tail(v) ELSE v
    IN  /\ digits # <<>>
        /\ \A i \in 1..Len(digits) : digits[i] >= 48 /\ digits[i] <= 57

RECURSIVE StripZeros(_)
StripZeros(s) ==
    IF Len(s) > 1 /\ s[1] = 48 THEN StripZeros(Tail(s)) ELSE s

\* The integer a decimal value denotes is greater than the one `bound`
\* (decimal text without sign or leading zeros) denotes.
DecimalGreater(v, bound) ==
    LET d == StripZeros(IF v[1] = 43 THEN Tail(v) ELSE v)
    IN  \/ Len(d) > Len(bound)
        \/ /\ Len(d) = Len(bound)
           /\ \E i \in 1..Len(d) :
                /\ d[i] > bound[i]
                /\ \A j \in 1..(i - 1) : d[j] = bound[j]

\* "18446744073709551615", 2^64 - 1
Text_u64_max == I_u64_max

\* "8000000"
Text_8000000 == I_8000000

\* Rule 1: stateful headers are rejected and one is present.
StatefulViolation(h, reject) == reject /\ Keys(h) \cap STATEFUL_HEADERS # {}

\* Rule 2: cache-control contains no-cache or private.
CacheControlViolation(h) ==
    \E e \in h :
        /\ e[1] = N_cache_control
        /\ Contains(e[2], S_no_cache) \/ Contains(e[2], S_private)

\* Rule 3: content-length is present and is not an integer of at most
\* 8,000,000.
ContentLengthViolation(h) ==
    \E e \in h :
        /\ e[1] = N_content_length
        /\ ~IsDecimalNat(e[2]) \/ DecimalGreater(e[2], Text_8000000)

\* Rule 4: content-type is absent.
ContentTypeViolation(h) == \A e \in h : e[1] # N_content_type

Validated == result.op = "validate"

Rejecting == args.reject_stateful_headers

\* C2 as stated: with no content-type header, validate_as_sxg_payload fails
\* with MissingContentType whatever the other headers and the flag are.
C2_MissingContentTypeWhateverElse ==
    (Validated /\ ContentTypeViolation(headers)) =>
        ~result.ok /\ result.kind = "MissingContentType"

\* C2, amended: with no content-type header, validate_as_sxg_payload fails;
\* the error is MissingContentType exactly when no other rule (stateful
\* header under rejection, cache-control, content-length) is violated.
C2_MissingContentTypeFails ==
    (Validated /\ ContentTypeViolation(headers)) =>
        /\ ~result.ok
        /\ result.kind = "MissingContentType"
             <=> ~(\/ StatefulViolation(headers, Rejecting)
                   \/ CacheControlViolation(headers)
                   \/ ContentLengthViolation(headers))

\* No content-type among headers that break no other rule, rejection on.
C2_Witness ==
    /\ Validated /\ Rejecting
    /\ headers = {<<N_cache_control, I_max_age>>, <<N_content_length, I_0>>,
                  <<I_x_foo, I_bar>>}
    /\ result = Err("validate", "MissingContentType", <<>>)

\* C5 as stated: under rejection a stateful header makes the call fail with
\* StatefulHeaderRejected, naming a stateful header of the set; without
\* rejection stateful headers never make it fail.
C5_StatefulAlwaysReportedAsSuch ==
    Validated =>
        /\ StatefulViolation(headers, Rejecting) =>
             /\ ~result.ok
             /\ result.kind = "StatefulHeaderRejected"
             /\ result.arg \in Keys(headers) \cap STATEFUL_HEADERS
        /\ (/\ ~Rejecting
            /\ ~CacheControlViolation(headers)
            /\ ~ContentLengthViolation(headers)
            /\ ~ContentTypeViolation(headers)) => result.ok

\* C5, amended: under rejection a stateful header makes the call fail; the
\* error is StatefulHeaderRejected naming a stateful header of the set,
\* except that a set whose cache-control also contains no-cache or private
\* may be reported as InvalidCacheControl instead; without rejection
\* stateful headers never make it fail.
C5_StatefulRejected ==
    Validated =>
        /\ StatefulViolation(headers, Rejecting) =>
             /\ ~result.ok
             /\ \/ /\ result.kind = "StatefulHeaderRejected"
                   /\ result.arg \in Keys(headers) \cap STATEFUL_HEADERS
                \/ /\ result.kind = "InvalidCacheControl"
                   /\ CacheControlViolation(headers)
        /\ (/\ ~Rejecting
            /\ ~CacheControlViolation(headers)
            /\ ~ContentLengthViolation(headers)
            /\ ~ContentTypeViolation(headers)) => result.ok

\* set-cookie: a=b beside a content-type, rejected by name.
C5_Witness ==
    /\ Validated /\ Rejecting
    /\ headers = {<<N_content_type, I_text_html>>, <<N_set_cookie, I_a_eq_b>>}
    /\ result = Err("validate", "StatefulHeaderRejected", N_set_cookie)

\* The set passes every rule but the one on content-length, which it has.
OnlyContentLengthInQuestion ==
    /\ Validated
    /\ ~StatefulViolation(headers, Rejecting)
    /\ ~CacheControlViolation(headers)
    /\ ~ContentTypeViolation(headers)
    /\ ContainsKey(headers, N_content_length)

\* C6 as stated: InvalidContentLength when content-length is not a
\* non-negative integer, ContentTooLarge when it is one above 8,000,000,
\* success when it is one from 0 to 8,000,000.
C6_ContentLengthAnyInteger ==
    OnlyContentLengthInQuestion =>
        LET v == Get(headers, N_content_length)
        IN  IF ~IsDecimalNat(v)
            THEN ~result.ok /\ result.kind = "InvalidContentLength"
            ELSE IF DecimalGreater(v, Text_8000000)
            THEN ~result.ok /\ result.kind = "ContentTooLarge"
            ELSE result.ok

\* C6, amended: InvalidContentLength when content-length is not an optional
\* '+' and decimal digits, or denotes more than 2^64 - 1; ContentTooLarge
\* when it denotes 8,000,001 to 2^64 - 1; success when it denotes 0 to
\* 8,000,000.
C6_ContentLengthU64 ==
    OnlyContentLengthInQuestion =>
        LET v == Get(headers, N_content_length)
        IN  IF ~IsDecimalNat(v) \/ DecimalGreater(v, Text_u64_max)
            THEN ~result.ok /\ result.kind = "InvalidContentLength"
            ELSE IF DecimalGreater(v, Text_8000000)
            THEN ~result.ok /\ result.kind = "ContentTooLarge"
            ELSE result.ok

\* content-length: 8000001 beside a content-type is one byte too large.
C6_Witness ==
    /\ Validated
    /\ headers = {<<N_content_type, I_text_html>>, <<N_content_length, I_8000001>>}
    /\ result = Err("validate", "ContentTooLarge", I_8000001)

\* C7: validate_as_sxg_payload succeeds exactly when no rule is violated:
\* (1) no stateful header under rejection, (2) no cache-control containing
\* no-cache or private, (3) content-length absent or at most 8,000,000,
\* (4) content-type present; success carries no value, and the call leaves
\* the header set as it was.
C7_SuccessIffAllRules ==
    /\ [](Validated =>
            /\ result.ok <=> ~(\/ StatefulViolation(headers, Rejecting)
                               \/ CacheControlViolation(headers)
                               \/ ContentLengthViolation(headers)
                               \/ ContentTypeViolation(headers))
            /\ result.ok => result = Ok("validate", <<>>))
    /\ [][result'.op = "validate" => headers' = headers]_vars

\* A stateful header without rejection, a cache-control that only
\* resembles no-cache, and a content-type: the call succeeds.
C7_Witness ==
    /\ Validated /\ ~Rejecting /\ result.ok
    /\ headers = {<<N_content_type, I_text_html>>, <<N_set_cookie, I_a_eq_b>>,
                  <<N_cache_control, I_No_Cache>>}

Signed == result.op = "sign"

\* The decimal text of the status codes used
StatusText(n) ==
    CASE n = 0 -> I_0
      [] n = 200 -> I_200
      [] n = 65535 -> I_65535

\* base64 of the digests used (RFC 4648)
Base64Text(b) ==
    CASE b = <<>> -> <<>>
      [] b = I_f -> I_Zg
      [] b = I_fo -> I_Zm8
      [] b = I_foo -> I_Zm9v
      [] b = <<255, 0, 128, 7, 251>> -> I_b64_bin

\* The three synthetic entries of a call
Synthetic(status_code, mice_digest) ==
    {<<N_status, StatusText(status_code)>>,
     <<N_content_encoding, S_mi_sha256_03>>,
     <<N_digest, S_mi_sha256_03_eq \o Base64Text(mice_digest)>>}

\* C3: the collection handed to the encoder is every input header named in
\* neither UncachedHeaderNames nor StatefulHeaderNames, its value unchanged,
\* plus one entry each for :status, content-encoding and digest; no name
\* occurs twice, and an input connection, set-cookie, content-encoding,
\* digest or :status header never contributes its value.
C3_SignedEntries ==
    Signed =>
        LET kept == {e \in headers :
                        e[1] \notin UNCACHED_HEADERS /\ e[1] \notin STATEFUL_HEADERS}
            synthetic == Synthetic(args.status_code, args.mice_digest)
        IN  /\ PairsOf(entries) = kept \cup synthetic
            /\ Len(entries) = Cardinality(kept) + 3
            /\ NamesOnce(entries)
            /\ \A e \in headers :
                 e[1] \in {N_connection, N_set_cookie, N_content_encoding,
                           N_digest, N_status} =>
                    e \notin PairsOf(entries)

\* connection and digest come in beside x-foo: only x-foo is signed, with
\* the three synthetic entries for status 200 and digest "foo".
C3_Witness ==
    /\ Signed
    /\ args.status_code = 200 /\ args.mice_digest = I_foo
    /\ headers = {<<N_connection, I_close>>, <<N_digest, I_sha>>, <<I_x_foo, I_bar>>}
    /\ entries = <<<<I_x_foo, I_bar>>,
                   <<N_status, I_200>>,
                   <<N_content_encoding, S_mi_sha256_03>>,
                   <<N_digest, S_mi_sha256_03_eq \o I_Zm9v>>>>

\* C4: the bytes of get_signed_headers_bytes are the same for every order in
\* which the table holding these names and values can be iterated, and
\* hence for every insertion order and for repeated calls.
C4_BytesIndependentOfIterationOrder ==
    Signed =>
        \A order \in Orders(headers) :
            result.out =
                get_signed_headers_bytes(order, args.status_code, args.mice_digest)

\* Two signed headers that the table yielded in the order opposite to the
\* one they are serialized in.
C4_Witness ==
    /\ Signed
    /\ headers = {<<N_content_type, I_text_html>>, <<I_x_foo, I_bar>>}
    /\ entries[1] = <<N_content_type, I_text_html>>
    /\ entries[2] = <<I_x_foo, I_bar>>
    /\ SubSeq(result.out, 2, 7) = cbor_byte_string(I_x_foo)

=============================================================================
